---- MODULE Spec2Model ----
(***************************************************************************)
(* Model of src/main.py: the tracking store (VideoTracker), the periodic   *)
(* sweep (check_videos_task under periodic_check) and the chat handlers    *)
(* that touch the store (set_command, stats_command, button_callback).     *)
(*                                                                         *)
(* Python objects are modelled with their identity: a tracked record is a  *)
(* dict object living in `heap`, the store's lists hold references to      *)
(* those objects, and the sweep's snapshot holds references too.  The      *)
(* event loop is single threaded, so every action is the code between two  *)
(* awaits of one coroutine.  A record object that nothing references any   *)
(* more is freed, as the interpreter's reference counting does.            *)
(***************************************************************************)
EXTENDS Integers, Sequences, FiniteSets, TLC

\* ------------------------------------------------------------------ bounds
MaxObjs == 2        \* record objects alive at the same time
MaxObs == 3         \* sweep observations remembered per record (history only)
MaxTasks == 2       \* coroutine slots for chat handlers suspended at an await
MaxDepth == 11      \* keys a payload nests its stats object under
MaxItems == 11      \* elements of a list in a payload
MaxSegments == 3    \* segments in the path of a link

\* --------------------------------------------------------------- constants
Threshold == 50000

Owners == {1, 2}
VideoIds == {"a", "b"}

\* A snapshot as get_video_stats returns it: four counters, at least one > 0.
Snap(v, l, s, f) == [views |-> v, likes |-> l, shares |-> s, favorites |-> f]

Snapshots ==
    { Snap(30000, 3, 1, 0), Snap(75000, 7, 2, 1),
      Snap(162000, 16, 4, 2), Snap(210000, 21, 5, 3) }

FewSnapshots == { Snap(30000, 3, 1, 0), Snap(75000, 7, 2, 1) }

\* what the platform reports while the views stay above the first threshold
HighSnapshots == { Snap(75000, 7, 2, 1), Snap(162000, 16, 4, 2) }

VARIABLES
    data,               \* tracker.data: ordered dict, Seq of [key, videos]
    heap,               \* the record dicts, by object identity
    file,               \* content of tracked_videos.json
    pc,                 \* periodic_check: "sleep", "fetch" or "send"
    all_videos,         \* the sweep's snapshot: Seq of <<user_id, object>>
    idx,                \* position of the sweep in all_videos
    last_notified,      \* the sweep's local read at line 654
    current_milestone,  \* the sweep's local of line 666, while sending
    tasks,              \* chat handlers suspended at their fetch
    hist,               \* history: per record, the sweep's observations
    issued,             \* history: notifications issued by the current sweep
    removed,            \* history: the remove_video call of the step just taken
    did,                \* history: what the step just taken was called with
    fetched,            \* history: the items the latest sweep fetched, in order
    video_data,         \* get_video_stats: what video.info() returned
    video_stats,        \* get_video_stats: what video.stats() would return
    video_url,          \* set_command: the link the user sent (line 499)
    response,           \* extract_video_id: what requests.head does (line 162)
    video_id,           \* set_command: what extract_video_id returned (line 500)
    extracted           \* what each extractor returned for video_data

vars == <<data, heap, file, pc, all_videos, idx, last_notified,
          current_milestone, tasks, hist, issued, removed, did, fetched,
          video_data, video_stats, extracted, video_url, response, video_id>>

\* ------------------------------------------------------------- the heap
ObjIds == 1..MaxObjs

Free ==
    [video_id |-> "", last_views |-> 0, last_likes |-> 0, last_shares |-> 0,
     last_favorites |-> 0, notified_at_views |-> 0]

IsFree(h, o) == h[o].video_id = ""

CanAlloc(h) == \E o \in ObjIds : IsFree(h, o)

Alloc(h) == CHOOSE o \in ObjIds : IsFree(h, o) /\ \A p \in ObjIds : p < o => ~IsFree(h, p)

\* the record objects referenced by the store, by the sweep's snapshot and
\* by the lists suspended stats_command handlers iterate
Refs(d, snapshot, ts) ==
    {d[i].videos[j] : <<i, j>> \in {x \in (1..Len(d)) \X ObjIds : x[2] <= Len(d[x[1]].videos)}}
    \cup {snapshot[i][2] : i \in 1..Len(snapshot)}
    \cup UNION {{ts[t].videos[j] : j \in 1..Len(ts[t].videos)} : t \in DOMAIN ts}

Collect(h, refs) == [o \in ObjIds |-> IF o \in refs THEN h[o] ELSE Free]

CollectHist(hs, refs) == [o \in ObjIds |-> IF o \in refs THEN hs[o] ELSE <<>>]

\* ------------------------------------------------------------ the store
HasKey(d, k) == \E i \in 1..Len(d) : d[i].key = k

KeyIndex(d, k) == CHOOSE i \in 1..Len(d) : d[i].key = k

\* self.data.get(str(user_id), [])
get_user_videos(d, k) == IF HasKey(d, k) THEN d[KeyIndex(d, k)].videos ELSE <<>>

SetVideos(d, k, vs) ==
    [i \in 1..Len(d) |-> IF d[i].key = k THEN [key |-> k, videos |-> vs] ELSE d[i]]

\* del self.data[user_key]
DelKey(d, k) == SelectSeq(d, LAMBDA e : e.key # k)

Tracked(d, h, k, vid) ==
    \E j \in 1..Len(get_user_videos(d, k)) : h[get_user_videos(d, k)[j]].video_id = vid

\* json.dump(self.data): the records by value, in dict and list order
Serialize(d, h) ==
    [i \in 1..Len(d) |->
        [key |-> d[i].key,
         videos |-> [j \in 1..Len(d[i].videos) |-> h[d[i].videos[j]]]]]

save_data(d, h) == Serialize(d, h)

new_record(vid) ==
    [video_id |-> vid, last_views |-> 0, last_likes |-> 0, last_shares |-> 0,
     last_favorites |-> 0, notified_at_views |-> 0]

\* Faulty variant of add_video: the pair is appended although it is tracked.
add_video_again(d, h, f, k, vid) ==
    LET d1 == IF HasKey(d, k) THEN d ELSE Append(d, [key |-> k, videos |-> <<>>])
    IN  IF ~CanAlloc(h)
        THEN [ok |-> FALSE, obj |-> 0, data |-> d1, heap |-> h, file |-> f]
        ELSE LET o == Alloc(h)
                 h2 == [h EXCEPT ![o] = new_record(vid)]
                 d2 == SetVideos(d1, k, Append(get_user_videos(d1, k), o))
             IN  [ok |-> TRUE, obj |-> o, data |-> d2, heap |-> h2,
                  file |-> save_data(d2, h2)]

\* add_video: [ok, obj, data, heap, file] after the call
add_video(d, h, f, k, vid) ==
    LET d1 == IF HasKey(d, k) THEN d ELSE Append(d, [key |-> k, videos |-> <<>>])
    IN  IF Tracked(d1, h, k, vid)
        THEN [ok |-> FALSE, obj |-> 0, data |-> d1, heap |-> h, file |-> f]
        ELSE LET o == Alloc(h)
                 h2 == [h EXCEPT ![o] = new_record(vid)]
                 d2 == SetVideos(d1, k, Append(get_user_videos(d1, k), o))
             IN  [ok |-> TRUE, obj |-> o, data |-> d2, heap |-> h2,
                  file |-> save_data(d2, h2)]

\* Faulty variant of update_video_stats: every record of the user is
\* overwritten.
update_video_stats_all(d, h, f, k, vid, stats) ==
    IF ~HasKey(d, k) THEN [heap |-> h, file |-> f]
    ELSE LET vs == get_user_videos(d, k)
             mine == {vs[j] : j \in 1..Len(vs)}
             h2 == [o \in ObjIds |->
                      IF o \in mine
                      THEN [h[o] EXCEPT !.last_views = stats.views,
                                        !.last_likes = stats.likes,
                                        !.last_shares = stats.shares,
                                        !.last_favorites = stats.favorites]
                      ELSE h[o]]
         IN  [heap |-> h2, file |-> save_data(d, h2)]

\* Faulty variant of update_video_stats: the views stored also move the
\* record's notified milestone (the last seen views as the baseline).
update_video_stats_baseline(d, h, f, k, vid, stats) ==
    IF ~HasKey(d, k) THEN [heap |-> h, file |-> f]
    ELSE LET vs == get_user_videos(d, k)
             hit == {j \in 1..Len(vs) : h[vs[j]].video_id = vid}
             h2 == IF hit = {} THEN h
                   ELSE LET o == vs[CHOOSE j \in hit : \A j2 \in hit : j <= j2]
                        IN  [h EXCEPT ![o].last_views = stats.views,
                                      ![o].last_likes = stats.likes,
                                      ![o].last_shares = stats.shares,
                                      ![o].last_favorites = stats.favorites,
                                      ![o].notified_at_views =
                                          (stats.views \div Threshold) * Threshold]
         IN  [heap |-> h2, file |-> save_data(d, h2)]

\* update_video_stats: [heap, file] after the call
update_video_stats(d, h, f, k, vid, stats) ==
    IF ~HasKey(d, k) THEN [heap |-> h, file |-> f]
    ELSE LET vs == get_user_videos(d, k)
             hit == {j \in 1..Len(vs) : h[vs[j]].video_id = vid}
             h2 == IF hit = {} THEN h
                   ELSE LET o == vs[CHOOSE j \in hit : \A j2 \in hit : j <= j2]
                        IN  [h EXCEPT ![o].last_views = stats.views,
                                      ![o].last_likes = stats.likes,
                                      ![o].last_shares = stats.shares,
                                      ![o].last_favorites = stats.favorites]
         IN  [heap |-> h2, file |-> save_data(d, h2)]

\* remove_video: [result, data, file] after the call; result is "True",
\* "False", or "KeyError" when line 98 indexes the key line 96 deleted.
remove_video(d, h, f, k, vid) ==
    IF ~HasKey(d, k) THEN [result |-> "False", data |-> d, file |-> f]
    ELSE LET old == get_user_videos(d, k)
             kept == SelectSeq(old, LAMBDA o : h[o].video_id # vid)
         IN  IF Len(kept) = 0
             THEN [result |-> "KeyError", data |-> DelKey(d, k), file |-> f]
             ELSE LET d2 == SetVideos(d, k, kept)
                  IN  IF Len(kept) < Len(old)
                      THEN [result |-> "True", data |-> d2, file |-> save_data(d2, h)]
                      ELSE [result |-> "False", data |-> d2, file |-> f]

\* A tracked_videos.json whose content json.load rejects (a truncated or
\* hand-edited file); it stands apart from everything save_data writes.
Unreadable == <<[key |-> 0, videos |-> <<>>]>>

\* the number of records in the entries of f before entry i
RECURSIVE Before(_, _)
Before(f, i) == IF i <= 1 THEN 0 ELSE Before(f, i - 1) + Len(f[i - 1].videos)

\* load_data: [data, heap] from the file; {} when json.load raised
load_data(f) ==
    IF f = Unreadable
    THEN [data |-> <<>>, heap |-> [o \in ObjIds |-> Free]]
    ELSE [data |-> [i \in 1..Len(f) |->
                      [key |-> f[i].key,
                       videos |-> [j \in 1..Len(f[i].videos) |-> Before(f, i) + j]]],
          heap |-> [o \in ObjIds |->
                      IF \E i \in 1..Len(f) : \E j \in 1..Len(f[i].videos) :
                            Before(f, i) + j = o
                      THEN LET i == CHOOSE i \in 1..Len(f) :
                                      o - Before(f, i) \in 1..Len(f[i].videos)
                           IN  f[i].videos[o - Before(f, i)]
                      ELSE Free]]

RECURSIVE Flatten(_, _)
Flatten(d, i) ==
    IF i > Len(d) THEN <<>>
    ELSE [j \in 1..Len(d[i].videos) |-> <<d[i].key, d[i].videos[j]>>]
         \o Flatten(d, i + 1)

get_all_tracked_videos(d) == Flatten(d, 1)

\* ---------------------------------------------------- the milestone test
\* Faulty variants of the milestone arithmetic, to try the properties on:
\* rounding up, and stopping at the first threshold.
milestone_of_ceil(views) == ((views + Threshold - 1) \div Threshold) * Threshold

milestone_of_first(views) == IF views >= Threshold THEN Threshold ELSE 0

\* line 666 and line 667
milestone_of(views) == (views \div Threshold) * Threshold

\* Faulty variants of the milestone test: >= for >, and # for >.
milestone_fires_ge(current, last) == current >= last /\ current > 0

milestone_fires_ne(current, last) == current # last /\ current > 0

\* faulty variant: fires only when more than one threshold was crossed
milestone_fires_skip(current, last) == current > last + Threshold /\ current > 0

\* line 669
milestone_fires(current, last) == current > last /\ current > 0

\* --------------------------------------------------------- chat handlers
NoRemove == [owner |-> 0, vid |-> "", tracked |-> FALSE, result |-> "none"]

NoTask ==
    [kind |-> "none", owner |-> 0, vid |-> "", videos |-> <<>>, live |-> FALSE, idx |-> 0]

TaskIds == 1..MaxTasks

FreeSlot(t) == tasks[t].kind = "none" /\ \A u \in TaskIds : u < t => tasks[u].kind # "none"

\* A suspended stats_command iterates the list object get_user_videos gave
\* it.  add_video appends to that object in place; remove_video binds a new
\* list (or deletes the key), after which the handler's list is its own.
AfterAppend(ts, k, o) ==
    [t \in TaskIds |->
        IF ts[t].kind = "stats" /\ ts[t].owner = k /\ ts[t].live
        THEN [ts[t] EXCEPT !.videos = Append(@, o)] ELSE ts[t]]

AfterRebind(ts, k) ==
    [t \in TaskIds |->
        IF ts[t].kind = "stats" /\ ts[t].owner = k /\ ts[t].live
        THEN [ts[t] EXCEPT !.live = FALSE] ELSE ts[t]]

\* the number of handlers suspended at an await
Busy(ts) == Cardinality({t \in TaskIds : ts[t].kind # "none"})

SweepVars == <<pc, all_videos, idx, last_notified, current_milestone, issued>>

\* set_command up to its await of get_video_stats (line 516)
SetStart(k, vid) ==
    /\ \E t \in TaskIds :
          /\ FreeSlot(t)
          /\ tasks' = [tasks EXCEPT ![t] = [NoTask EXCEPT !.kind = "set", !.owner = k, !.vid = vid]]
    /\ UNCHANGED <<data, heap, file, hist>>
    /\ removed' = NoRemove
    /\ UNCHANGED SweepVars

\* set_command, get_video_stats returned None (lines 518-523)
SetFetchNone(t) ==
    /\ tasks[t].kind = "set"
    /\ tasks' = [tasks EXCEPT ![t] = NoTask]
    /\ UNCHANGED <<data, heap, file, hist>>
    /\ removed' = NoRemove
    /\ UNCHANGED SweepVars

\* set_command, get_video_stats returned stats (lines 526-541)
SetFetchStats(t, stats) ==
    /\ tasks[t].kind = "set"
    /\ Tracked(data, heap, tasks[t].owner, tasks[t].vid) \/ CanAlloc(heap)
    /\ LET k == tasks[t].owner
           vid == tasks[t].vid
           a == add_video(data, heap, file, k, vid)
           u == update_video_stats(a.data, a.heap, a.file, k, vid, stats)
           ts == [tasks EXCEPT ![t] = NoTask]
       IN  /\ data' = a.data
           /\ heap' = IF a.ok THEN u.heap ELSE a.heap
           /\ file' = IF a.ok THEN u.file ELSE a.file
           /\ tasks' = IF a.ok THEN AfterAppend(ts, k, a.obj) ELSE ts
    /\ UNCHANGED hist
    /\ removed' = NoRemove
    /\ UNCHANGED SweepVars

\* stats_command up to its first await of get_video_stats (lines 545-564)
StatsStart(k) ==
    /\ get_user_videos(data, k) # <<>>
    /\ \E t \in TaskIds :
          /\ FreeSlot(t)
          /\ tasks' = [tasks EXCEPT ![t] =
                [NoTask EXCEPT !.kind = "stats", !.owner = k,
                               !.videos = get_user_videos(data, k),
                               !.live = TRUE, !.idx = 1]]
    /\ UNCHANGED <<data, heap, file, hist>>
    /\ removed' = NoRemove
    /\ UNCHANGED SweepVars

\* the for loop of stats_command moves on (line 559)
StatsNext(t) ==
    IF tasks[t].idx + 1 > Len(tasks[t].videos)
    THEN [tasks EXCEPT ![t] = NoTask]
    ELSE [tasks EXCEPT ![t].idx = @ + 1]

\* stats_command, get_video_stats returned None (lines 583-587)
StatsFetchNone(t) ==
    /\ tasks[t].kind = "stats"
    /\ tasks' = StatsNext(t)
    /\ UNCHANGED <<data, file>>
    /\ removed' = NoRemove
    /\ UNCHANGED SweepVars
    /\ heap' = Collect(heap, Refs(data', all_videos', tasks'))
    /\ hist' = CollectHist(hist, Refs(data', all_videos', tasks'))

\* stats_command, get_video_stats returned stats (lines 566-582)
StatsFetchStats(t, stats) ==
    /\ tasks[t].kind = "stats"
    /\ tasks' = StatsNext(t)
    /\ UNCHANGED data
    /\ removed' = NoRemove
    /\ UNCHANGED SweepVars
    /\ LET vid == heap[tasks[t].videos[tasks[t].idx]].video_id
           u == update_video_stats(data, heap, file, tasks[t].owner, vid, stats)
       IN  /\ heap' = Collect(u.heap, Refs(data', all_videos', tasks'))
           /\ file' = u.file
    /\ hist' = CollectHist(hist, Refs(data', all_videos', tasks'))

\* button_callback with data "remove_<video_id>" (lines 633-642); the call
\* and its outcome are noted in the history on request
Remove(k, vid, noted) ==
    /\ LET r == remove_video(data, heap, file, k, vid)
       IN  /\ data' = r.data
           /\ file' = r.file
           /\ removed' = IF noted
                         THEN [owner |-> k, vid |-> vid,
                               tracked |-> Tracked(data, heap, k, vid),
                               result |-> r.result]
                         ELSE NoRemove
    /\ tasks' = IF HasKey(data, k) THEN AfterRebind(tasks, k) ELSE tasks
    /\ UNCHANGED SweepVars
    /\ heap' = Collect(heap, Refs(data', all_videos', tasks'))
    /\ hist' = CollectHist(hist, Refs(data', all_videos', tasks'))

\* ------------------------------------------------------------- the sweep
\* One observation of the sweep, for the histories: the views fetched, the
\* record's notified_at_views as stored when the fetch returned, the
\* milestone announced (0 for none) and what became of the send ("none",
\* "pending", "ok", "fail").
Obs(v, n, m, s) == [views |-> v, before |-> n, fired |-> m, sent |-> s]

SetLast(h, o, s) == [h EXCEPT ![o] = IF Len(@) = 0 THEN @ ELSE [@ EXCEPT ![Len(@)].sent = s]]

\* the history of record o with one more observation, the last `window` kept
Remember(h, o, seen, window) ==
    [h EXCEPT ![o] = IF window = 0 THEN @
                     ELSE IF Len(@) < window THEN Append(@, seen)
                     ELSE Append(Tail(@), seen)]

\* Faulty variant of Enter: the baseline is read from last_views.
Enter_from_last_views(i, snapshot, h, notes) ==
    IF i > Len(snapshot)
    THEN /\ pc' = "sleep"
         /\ all_videos' = <<>>
         /\ idx' = 0
         /\ last_notified' = 0
         /\ issued' = <<>>
    ELSE /\ pc' = "fetch"
         /\ all_videos' = snapshot
         /\ idx' = i
         /\ last_notified' = h[snapshot[i][2]].last_views
         /\ issued' = notes

\* Faulty variant of Enter: the loop runs over the store as it is now, not
\* over the snapshot taken when the sweep began.
Enter_live(i, snapshot, h, notes) ==
    IF i > Len(get_all_tracked_videos(data))
    THEN /\ pc' = "sleep"
         /\ all_videos' = <<>>
         /\ idx' = 0
         /\ last_notified' = 0
         /\ issued' = <<>>
    ELSE /\ pc' = "fetch"
         /\ all_videos' = get_all_tracked_videos(data)
         /\ idx' = i
         /\ last_notified' = h[get_all_tracked_videos(data)[i][2]].notified_at_views
         /\ issued' = notes

\* The for loop of check_videos_task takes item i, or ends (lines 650-654,
\* 698); periodic_check then sleeps (line 709).
Enter(i, snapshot, h, notes) ==
    IF i > Len(snapshot)
    THEN /\ pc' = "sleep"
         /\ all_videos' = <<>>
         /\ idx' = 0
         /\ last_notified' = 0
         /\ issued' = <<>>
    ELSE /\ pc' = "fetch"
         /\ all_videos' = snapshot
         /\ idx' = i
         /\ last_notified' = h[snapshot[i][2]].notified_at_views
         /\ issued' = notes

\* periodic_check wakes up and check_videos_task runs up to its first await
\* (lines 704, 646-657)
SweepStart ==
    /\ pc = "sleep"
    /\ Enter(1, get_all_tracked_videos(data), heap, <<>>)
    /\ current_milestone' = 0
    /\ UNCHANGED <<data, heap, file, tasks, hist>>
    /\ removed' = NoRemove

\* get_video_stats returned None (lines 659-660)
SweepFetchNone ==
    /\ pc = "fetch"
    /\ Enter(idx + 1, all_videos, heap, issued)
    /\ UNCHANGED <<data, file, tasks, current_milestone>>
    /\ removed' = NoRemove
    /\ heap' = Collect(heap, Refs(data', all_videos', tasks'))
    /\ hist' = CollectHist(hist, Refs(data', all_videos', tasks'))

\* get_video_stats returned stats (lines 662-688, up to the await of
\* send_message when the milestone test passes)
SweepFetchStats(stats, window) ==
    /\ pc = "fetch"
    /\ UNCHANGED <<data, tasks>>
    /\ removed' = NoRemove
    /\ LET user_id == all_videos[idx][1]
           video == all_videos[idx][2]
           current_views == stats.views
           u == update_video_stats(data, heap, file, user_id, heap[video].video_id, stats)
           now == milestone_of(current_views)
           last_milestone == milestone_of(last_notified)
           fires == milestone_fires(now, last_milestone)
           seen == Obs(current_views, heap[video].notified_at_views,
                       IF fires THEN now ELSE 0, IF fires THEN "pending" ELSE "none")
       IN  /\ file' = u.file
           /\ IF fires
              THEN /\ pc' = "send"
                   /\ current_milestone' = now
                   /\ issued' = Append(issued, [obj |-> video, views |-> current_views,
                                                milestone |-> now])
                   /\ UNCHANGED <<all_videos, idx, last_notified>>
              ELSE /\ Enter(idx + 1, all_videos, u.heap, issued)
                   /\ UNCHANGED current_milestone
           /\ heap' = Collect(u.heap, Refs(data', all_videos', tasks'))
           /\ hist' = CollectHist(Remember(hist, video, seen, window),
                                  Refs(data', all_videos', tasks'))

\* Faulty variants of record_milestone: the record is left as it was, and
\* the views are stored for the milestone.
record_milestone_lost(d, h, video, milestone) == [heap |-> h, file |-> save_data(d, h)]

record_milestone_views(d, h, video, milestone) ==
    LET h2 == [h EXCEPT ![video].notified_at_views = h[video].last_views]
    IN  [heap |-> h2, file |-> save_data(d, h2)]

\* Faulty variant of record_milestone: the milestone is written to every
\* record of the video, whoever tracks it.
record_milestone_shared(d, h, video, milestone) ==
    LET h2 == [o \in ObjIds |->
                 IF ~IsFree(h, o) /\ h[o].video_id = h[video].video_id
                 THEN [h[o] EXCEPT !.notified_at_views = milestone] ELSE h[o]]
    IN  [heap |-> h2, file |-> save_data(d, h2)]

\* Faulty variant of record_milestone: the whole record is stored anew with
\* the milestone, and the metrics written meanwhile are dropped.
record_milestone_whole(d, h, video, milestone) ==
    LET h2 == [h EXCEPT ![video] =
                 [new_record(h[video].video_id) EXCEPT !.notified_at_views = milestone]]
    IN  [heap |-> h2, file |-> save_data(d, h2)]

\* the milestone written by line 691: [heap, file] after lines 691-692
record_milestone(d, h, video, milestone) ==
    LET h2 == [h EXCEPT ![video].notified_at_views = milestone]
    IN  [heap |-> h2, file |-> save_data(d, h2)]

\* send_message returned (lines 690-694)
SweepSendOk ==
    /\ pc = "send"
    /\ current_milestone' = 0
    /\ UNCHANGED <<data, tasks>>
    /\ removed' = NoRemove
    /\ LET video == all_videos[idx][2]
           w == record_milestone(data, heap, video, current_milestone)
       IN  /\ file' = w.file
           /\ Enter(idx + 1, all_videos, w.heap, issued)
           /\ heap' = Collect(w.heap, Refs(data', all_videos', tasks'))
           /\ hist' = CollectHist(SetLast(hist, video, "ok"),
                                  Refs(data', all_videos', tasks'))

\* Variant of SweepSendFail that marks the milestone as notified although
\* the send failed.
SweepSendFail_marks ==
    /\ pc = "send"
    /\ current_milestone' = 0
    /\ UNCHANGED <<data, tasks>>
    /\ removed' = NoRemove
    /\ LET video == all_videos[idx][2]
           h2 == [heap EXCEPT ![video].notified_at_views = current_milestone]
       IN  /\ file' = save_data(data, h2)
           /\ Enter(idx + 1, all_videos, h2, issued)
           /\ heap' = Collect(h2, Refs(data', all_videos', tasks'))
           /\ hist' = CollectHist(SetLast(hist, video, "fail"),
                                  Refs(data', all_videos', tasks'))

\* Variant of SweepSendFail in which the exception ends the sweep.
SweepSendFail_aborts ==
    /\ pc = "send"
    /\ current_milestone' = 0
    /\ UNCHANGED <<data, file, tasks>>
    /\ removed' = NoRemove
    /\ Enter(Len(all_videos) + 1, all_videos, heap, issued)
    /\ heap' = Collect(heap, Refs(data', all_videos', tasks'))
    /\ hist' = CollectHist(SetLast(hist, all_videos[idx][2], "fail"),
                           Refs(data', all_videos', tasks'))

\* Variant of SweepSendFail in which the exception ends periodic_check.
SweepSendFail_stops ==
    /\ pc = "send"
    /\ pc' = "stopped"
    /\ UNCHANGED <<data, heap, file, tasks, hist, all_videos, idx, last_notified,
                   current_milestone, issued>>
    /\ removed' = NoRemove

\* send_message raised (lines 695-696)
SweepSendFail ==
    /\ pc = "send"
    /\ current_milestone' = 0
    /\ UNCHANGED <<data, file, tasks>>
    /\ removed' = NoRemove
    /\ Enter(idx + 1, all_videos, heap, issued)
    /\ heap' = Collect(heap, Refs(data', all_videos', tasks'))
    /\ hist' = CollectHist(SetLast(hist, all_videos[idx][2], "fail"),
                           Refs(data', all_videos', tasks'))

\* ---------------------------------------------------------- the extractor
\* A JSON value as video.info() or json.loads hands it over.  Every value is
\* a record of one shape: kind is "null", "num", "str", "list" or "dict"; the
\* items of a dict are its (key, value) pairs in insertion order, those of a
\* list carry the key "".  A string is a non-empty text; its items hold what
\* json.loads makes of it, or nothing when json.loads rejects it.  "absent"
\* marks a key that a dict does not hold.
Node(kind, num, items) == [kind |-> kind, num |-> num, items |-> items]

Pair(k, v) == [key |-> k, val |-> v]

Null == Node("null", 0, <<>>)
Absent == Node("absent", 0, <<>>)
Num(n) == Node("num", n, <<>>)
Dict(items) == Node("dict", 0, items)
List(elems) == Node("list", 0, [i \in 1..Len(elems) |-> Pair("", elems[i])])
Text(parsed) == Node("str", 0, <<Pair("", parsed)>>)
Garbage == Node("str", 0, <<>>)

\* k in d
Has(d, k) == d.kind = "dict" /\ \E i \in 1..Len(d.items) : d.items[i].key = k

\* d.get(k): None when the key is absent
Get(d, k) ==
    IF Has(d, k)
    THEN d.items[CHOOSE i \in 1..Len(d.items) : d.items[i].key = k].val
    ELSE Null

\* the truth value Python gives a JSON value in `not x` and `x or y`
Truthy(v) ==
    CASE v.kind = "num" -> v.num # 0
      [] v.kind \in {"list", "dict"} -> Len(v.items) > 0
      [] v.kind = "str" -> TRUE
      [] OTHER -> FALSE

\* a or b or 0
Or0(a, b) == IF Truthy(a) THEN a ELSE IF Truthy(b) THEN b ELSE Num(0)

\* What an extractor returns: None, a dict of counters (a counter the dict
\* does not hold is Absent), or the exception it let out.
Counters(kind, v, l, s, f) ==
    [kind |-> kind, views |-> v, likes |-> l, shares |-> s, favorites |-> f]

None == Counters("None", Absent, Absent, Absent, Absent)
Raised == Counters("raise", Absent, Absent, Absent, Absent)
Pending == Counters("pending", Absent, Absent, Absent, Absent)

\* the four assignments of lines 245-248 and 425-428
normalize_first(stats) ==
    Counters("stats",
             IF Get(stats, "playCount").kind # "null"
             THEN Get(stats, "playCount") ELSE Or0(Get(stats, "viewCount"), Null),
             IF Get(stats, "diggCount").kind # "null"
             THEN Get(stats, "diggCount") ELSE Or0(Get(stats, "likeCount"), Null),
             Or0(Get(stats, "shareCount"), Null),
             Or0(Get(stats, "collectCount"), Null))

normalize(stats) ==
    Counters("stats",
             Or0(Get(stats, "playCount"), Get(stats, "viewCount")),
             Or0(Get(stats, "diggCount"), Get(stats, "likeCount")),
             Or0(Get(stats, "shareCount"), Null),
             Or0(Get(stats, "collectCount"), Null))

\* result.values(), in the order views, likes, shares, favorites (the order
\* of insertion can differ after stats.update at line 433, which matters
\* only when a counter is not a number)
Values(r) ==
    SelectSeq(<<r.views, r.likes, r.shares, r.favorites>>,
              LAMBDA v : v.kind # "absent")

\* any(v > 0 for v in values): "yes", "no", or "raise" when a value that is
\* not a number is compared before a positive one is met (TypeError)
RECURSIVE AnyPositive(_)
AnyPositive(values) ==
    IF values = <<>> THEN "no"
    ELSE IF Head(values).kind # "num" THEN "raise"
    ELSE IF Head(values).num > 0 THEN "yes"
    ELSE AnyPositive(Tail(values))

\* lines 213-228: the if/elif chain over 'stats', 'itemInfo', 'videoInfo'
Located(video_info) ==
    IF video_info.kind # "dict" THEN Null
    ELSE IF Has(video_info, "stats") THEN Get(video_info, "stats")
    ELSE IF Has(video_info, "itemInfo") THEN
        LET item_info == Get(video_info, "itemInfo")
            item_struct == Get(item_info, "itemStruct")
        IN  IF Has(item_info, "itemStruct") /\ Has(item_struct, "stats")
            THEN Get(item_struct, "stats") ELSE Null
    ELSE IF Has(video_info, "videoInfo") THEN
        LET inner == Get(video_info, "videoInfo")
        IN  IF Has(inner, "stats") THEN Get(inner, "stats") ELSE Null
    ELSE Null

RootKeys == {"playCount", "viewCount", "diggCount", "likeCount"}

\* get_video_stats from the return of video.info() on (lines 206-265), given
\* what video.stats() would return: a dict, or Null when it raises or
\* returns anything else.  An exception inside is caught at line 262.
get_video_stats(video_info, stats_info) ==
    LET located == Located(video_info)
        rooted == IF ~Truthy(located) /\ \E k \in RootKeys : Has(video_info, k)
                  THEN video_info ELSE located
        stats == IF ~Truthy(rooted) /\ stats_info.kind = "dict"
                 THEN stats_info ELSE rooted
        result == normalize(stats)
    IN  IF Truthy(stats) /\ stats.kind = "dict"
           /\ AnyPositive(Values(result)) = "yes"
        THEN result ELSE None

\* no extractor has been called yet
NoResult == [api |-> Pending, rec |-> Pending]

Containers == <<"videoInfo", "itemInfo", "itemStruct", "video", "item">>
KeyLimit == 20

ValuesOf(items) == [i \in 1..Len(items) |-> items[i].val]

\* _extract_stats_from_json (lines 398-462); SearchIn is its loop "result =
\* self._extract_stats_from_json(item); if result and any(...): return
\* result" over the values given (lines 411-414, 446-449, 457-460)
RECURSIVE extract_stats_from_json(_), SearchIn(_)
SearchIn(values) ==
    IF values = <<>> THEN None
    ELSE LET result == extract_stats_from_json(Head(values))
             found == IF result.kind = "stats"
                      THEN AnyPositive(Values(result)) ELSE "no"
         IN  IF result.kind = "raise" \/ found = "raise" THEN Raised
             ELSE IF found = "yes" THEN result
             ELSE SearchIn(Tail(values))

extract_stats_from_json(json) ==
    LET parsed == IF json.kind = "str" /\ json.items # <<>>
                  THEN json.items[1].val ELSE json
    IN
    IF json = Garbage \/ parsed.kind = "null" THEN None
    ELSE IF parsed.kind = "list" THEN SearchIn(ValuesOf(parsed.items))
    ELSE IF parsed.kind # "dict" THEN None
    ELSE
    LET stats_data == Get(parsed, "stats")
        first == IF stats_data.kind = "list" /\ Len(stats_data.items) > 0
                 THEN extract_stats_from_json(stats_data.items[1].val)
                 ELSE None
        under == IF stats_data.kind = "dict" THEN normalize(stats_data)
                 ELSE IF first.kind = "stats" THEN first
                 ELSE Counters("stats", Absent, Absent, Absent, Absent)
        stats ==
            Counters("stats",
                IF Has(parsed, "playCount") \/ Has(parsed, "viewCount")
                THEN Or0(Get(parsed, "playCount"), Get(parsed, "viewCount"))
                ELSE under.views,
                IF Has(parsed, "diggCount") \/ Has(parsed, "likeCount")
                THEN Or0(Get(parsed, "diggCount"), Get(parsed, "likeCount"))
                ELSE under.likes,
                IF Has(parsed, "shareCount")
                THEN Or0(Get(parsed, "shareCount"), Null) ELSE under.shares,
                IF Has(parsed, "collectCount")
                THEN Or0(Get(parsed, "collectCount"), Null) ELSE under.favorites)
        inside == SearchIn(ValuesOf(SelectSeq(
                      [i \in 1..Len(Containers) |->
                          Pair(Containers[i], Get(parsed, Containers[i]))],
                      LAMBDA p : p.val.kind = "dict")))
        children == SearchIn(ValuesOf(SelectSeq(
                        SubSeq(parsed.items, 1,
                               IF Len(parsed.items) < KeyLimit
                               THEN Len(parsed.items) ELSE KeyLimit),
                        LAMBDA p : /\ p.val.kind \in {"dict", "list"}
                                   /\ p.key \notin {"stats", "videoInfo", "itemInfo"})))
        positive == IF Values(stats) = <<>> THEN "no"
                    ELSE AnyPositive(Values(stats))
    IN  IF first.kind = "raise" THEN Raised
        ELSE IF inside.kind # "None" THEN inside
        ELSE IF positive = "raise" THEN Raised
        ELSE IF positive = "yes" THEN stats
        ELSE IF children.kind # "None" THEN children
        ELSE IF Values(stats) # <<>> THEN stats
        ELSE None

\* ------------------------------------------------------- the identifier
\* A URL is its host and the segments of its path, each segment a sequence
\* of characters; "video" stands for the word video, "x" for any other
\* letter, "7" for a digit.  The domain tiktok.com occurs in the host only.
Url(host, path) == [host |-> host, path |-> path]

ShortHosts == {"vm.tiktok.com", "vt.tiktok.com"}
TikTokHosts == ShortHosts \cup {"www.tiktok.com"}

Digit == {"7"}
AlphaNum == {"x", "7", "video"}
WordDotDash == AlphaNum \cup {"-"}

\* what re.search returns: no match, or the match's group(1)
NoMatch == [kind |-> "None", id |-> <<>>]
Group(id) == [kind |-> "id", id |-> id]
NotCalled == [kind |-> "pending", id |-> <<>>]

\* the longest prefix of a segment within a class of characters: (\d+),
\* ([A-Za-z0-9]+)
RECURSIVE Leading(_, _)
Leading(segment, class) ==
    IF segment = <<>> \/ Head(segment) \notin class THEN <<>>
    ELSE <<Head(segment)>> \o Leading(Tail(segment), class)

\* tiktok\.com/@[\w.-]+/video/(\d+)
user_pattern(url) ==
    IF /\ url.host \in TikTokHosts
       /\ Len(url.path) >= 3
       /\ Len(url.path[1]) >= 2
       /\ Head(url.path[1]) = "@"
       /\ \A i \in 2..Len(url.path[1]) : url.path[1][i] \in WordDotDash
       /\ url.path[2] = <<"video">>
       /\ Leading(url.path[3], Digit) # <<>>
    THEN Group(Leading(url.path[3], Digit)) ELSE NoMatch

\* tiktok\.com/.*?/video/(\d+): the first segment "video", not the path's
\* first segment, that digits follow
VideoAt(url) ==
    { j \in 2..(Len(url.path) - 1) : /\ url.path[j] = <<"video">>
                                     /\ Leading(url.path[j + 1], Digit) # <<>> }

any_pattern(url) ==
    IF url.host \in TikTokHosts /\ VideoAt(url) # {}
    THEN Group(Leading(url.path[1 + CHOOSE j \in VideoAt(url) :
                                       \A i \in VideoAt(url) : j <= i], Digit))
    ELSE NoMatch

\* (?:vm\.tiktok\.com|vt\.tiktok\.com)/([A-Za-z0-9]+)
short_pattern(url) ==
    IF /\ url.host \in ShortHosts
       /\ Len(url.path) >= 1
       /\ Leading(url.path[1], AlphaNum) # <<>>
    THEN Group(Leading(url.path[1], AlphaNum)) ELSE NoMatch

\* for pattern in patterns: match = re.search(pattern, url); if match: return
FirstMatch(matches) ==
    IF \E i \in 1..Len(matches) : matches[i] # NoMatch
    THEN matches[CHOOSE i \in 1..Len(matches) :
                    /\ matches[i] # NoMatch
                    /\ \A j \in 1..(i - 1) : matches[j] = NoMatch]
    ELSE NoMatch

\* requests.head(url, allow_redirects=True) raised, or returned a response
\* with the final URL
Failed == [ok |-> FALSE, url |-> Url("", <<>>)]
Response(url) == [ok |-> TRUE, url |-> url]

\* extract_video_id (lines 156-182), given what requests.head does (the
\* first is the variant in which a failed resolution ends the extraction)
extract_video_id_fatal(url, head) ==
    IF url.host \in ShortHosts /\ ~head.ok THEN NoMatch
    ELSE LET final == IF url.host \in ShortHosts THEN head.url ELSE url
         IN  FirstMatch(<<user_pattern(final), any_pattern(final), short_pattern(final)>>)

extract_video_id(url, head) ==
    IF url.host \in ShortHosts /\ ~head.ok /\ short_pattern(url) # NoMatch
    THEN short_pattern(url)
    ELSE LET final == IF url.host \in ShortHosts /\ head.ok THEN head.url ELSE url
         IN  FirstMatch(<<user_pattern(final), any_pattern(final), short_pattern(final)>>)

\* The links a user may send with /set
Segments ==
    { <<>>, <<"@">>, <<"@", "x">>, <<"video">>, <<"7">>, <<"7", "x">>, <<"x", "7">>,
      <<"x", "-">> }

Hosts == TikTokHosts \cup {"example.com"}

RECURSIVE PathsOf(_)
PathsOf(n) ==
    IF n = 0 THEN {<<>>}
    ELSE PathsOf(n - 1) \cup
         { Append(p, s) : p \in { q \in PathsOf(n - 1) : Len(q) = n - 1 }, s \in Segments }

Urls == { Url(h, p) : h \in Hosts, p \in PathsOf(MaxSegments) }

\* where a short link may lead: nowhere (the same URL comes back), to a
\* video's page, to the front page
Responses(url) ==
    IF url.host \in ShortHosts
    THEN { Failed, Response(url),
           Response(Url("www.tiktok.com", <<<<"@", "x">>, <<"video">>, <<"7">>>>)),
           Response(Url("www.tiktok.com", <<>>)) }
    ELSE { Failed }

\* ------------------------------------------------------------ the notes
\* What a step was called with, for the histories: the handler, the record
\* it names, the snapshot get_video_stats returned (NoStats for None) and
\* whether the record was in the store when the step began.
NoStats == Snap(0, 0, 0, 0)

NoCall == [op |-> "none", owner |-> 0, vid |-> "", stats |-> NoStats, tracked |-> FALSE]

Call(op, k, vid, stats) ==
    [op |-> op, owner |-> k, vid |-> vid, stats |-> stats,
     tracked |-> Tracked(data, heap, k, vid)]

CallOfSet(t, stats) == Call("set", tasks[t].owner, tasks[t].vid, stats)

CallOfStats(t, stats) ==
    Call("stats", tasks[t].owner, heap[tasks[t].videos[tasks[t].idx]].video_id, stats)

CallOfSweep(op, stats) ==
    Call(op, all_videos[idx][1], heap[all_videos[idx][2]].video_id, stats)

\* One line of the sweep's log: the item fetched and what came of it ("none",
\* "quiet", "pending", "ok", "fail").
Fetched(outcome) ==
    [owner |-> all_videos[idx][1], vid |-> heap[all_videos[idx][2]].video_id,
     outcome |-> outcome]

Outcome(log, outcome) == [log EXCEPT ![Len(log)].outcome = outcome]

\* the step is noted in the histories that are kept: "did", "fetched"; it
\* is no step of the extractor
Noting(kept, call, log) ==
    /\ did' = IF "did" \in kept THEN call ELSE NoCall
    /\ fetched' = IF "fetched" \in kept THEN log ELSE fetched
    /\ UNCHANGED <<video_data, video_stats, extracted, video_url, response, video_id>>

\* at most n handlers are suspended at the same time
Handlers(n) == Busy(tasks') <= n

\* ------------------------------------------------------ the initial state
\* VideoTracker() with no tracked_videos.json yet: load_data returns {}.
Init ==
    /\ data = <<>>
    /\ heap = [o \in ObjIds |-> Free]
    /\ file = <<>>
    /\ pc = "sleep"
    /\ all_videos = <<>>
    /\ idx = 0
    /\ last_notified = 0
    /\ current_milestone = 0
    /\ tasks = [t \in TaskIds |-> NoTask]
    /\ hist = [o \in ObjIds |-> <<>>]
    /\ issued = <<>>
    /\ removed = NoRemove
    /\ did = NoCall
    /\ fetched = <<>>
    /\ video_data = Null
    /\ video_stats = Null
    /\ extracted = NoResult
    /\ video_url = Url("", <<>>)
    /\ response = Failed
    /\ video_id = NotCalled

\* What tracked_videos.json may hold when the process starts: nothing, the
\* store an earlier run saved, or content that does not parse.
BootFiles ==
    { <<>>,
      <<[key |-> 1,
         videos |-> <<[new_record("a") EXCEPT !.last_views = 75000, !.last_likes = 7,
                                              !.last_shares = 2, !.last_favorites = 1,
                                              !.notified_at_views = 50000]>>]>>,
      Unreadable }

\* tracker = VideoTracker() (line 465) over one of these files
InitBoot ==
    /\ file \in BootFiles
    /\ data = load_data(file).data
    /\ heap = load_data(file).heap
    /\ pc = "sleep"
    /\ all_videos = <<>>
    /\ idx = 0
    /\ last_notified = 0
    /\ current_milestone = 0
    /\ tasks = [t \in TaskIds |-> NoTask]
    /\ hist = [o \in ObjIds |-> <<>>]
    /\ issued = <<>>
    /\ removed = NoRemove
    /\ did = NoCall
    /\ fetched = <<>>
    /\ video_data = Null
    /\ video_stats = Null
    /\ extracted = NoResult
    /\ video_url = Url("", <<>>)
    /\ response = Failed
    /\ video_id = NotCalled

\* The payloads video.info() may return.  A stats object holds some of the
\* counter keys, with a number or null, and perhaps a key that is no counter.
Opt(k, v) == IF v = Absent THEN <<>> ELSE <<Pair(k, v)>>

StatsObjects ==
    { Dict(Opt("playCount", play) \o Opt("viewCount", view) \o Opt("diggCount", digg)
           \o Opt("likeCount", like) \o Opt("foo", foo)) :
        play \in {Absent, Null, Num(0), Num(1000)}, view \in {Absent, Num(0), Num(7)},
        digg \in {Absent, Num(0), Num(5)}, like \in {Absent, Num(9)},
        foo \in {Absent, Num(1)} }

FewStatsObjects ==
    { Dict(<<>>), Dict(<<Pair("foo", Num(1))>>),
      Dict(<<Pair("playCount", Num(0))>>), Dict(<<Pair("playCount", Num(1000))>>),
      Dict(<<Pair("viewCount", Num(7)), Pair("diggCount", Num(5))>>) }

AllZero ==
    Dict(<<Pair("playCount", Num(0)), Pair("diggCount", Num(0)),
           Pair("shareCount", Num(0)), Pair("collectCount", Num(0))>>)

\* the value v under the keys of path
RECURSIVE Under(_, _)
Under(path, v) ==
    IF path = <<>> THEN v ELSE Dict(<<Pair(Head(path), Under(Tail(path), v))>>)

\* {"stats": a} below n levels of an unknown key, and at the end of a list
\* of n elements whose other elements hold no counter
Deep(n, a) == Under([i \in 1..n |-> "aweme"], Under(<<"stats">>, a))

Long(n, a) ==
    List([i \in 1..n |-> IF i < n THEN Dict(<<Pair("foo", Num(1))>>)
                                  ELSE Under(<<"stats">>, a)])

Paths ==
    { <<>>, <<"stats">>, <<"data", "stats">>, <<"itemInfo", "itemStruct", "stats">>,
      <<"videoInfo", "stats">>, <<"aweme", "stats">> }

Payloads ==
    { Under(path, so) : path \in Paths, so \in StatsObjects \cup {AllZero} }
    \cup { Dict(<<Pair("stats", a),
                  Pair("itemInfo", Under(<<"itemStruct", "stats">>, b))>>) :
             a \in FewStatsObjects, b \in FewStatsObjects }
    \cup { Dict(<<Pair("stats", a), Pair("data", Under(<<"stats">>, b))>>) :
             a \in FewStatsObjects, b \in FewStatsObjects }
    \cup { Dict(<<Pair("stats", List(<<a>>))>>) : a \in FewStatsObjects }
    \cup { List(<<Under(<<"stats">>, a), Under(<<"stats">>, b)>>) :
             a \in FewStatsObjects, b \in FewStatsObjects }
    \cup { Null, Num(5), List(<<>>), Garbage, Text(Under(<<"stats">>, AllZero)) }
    \cup { Deep(n, a) : n \in 1..MaxDepth, a \in FewStatsObjects }
    \cup { Long(n, a) : n \in 1..MaxItems, a \in FewStatsObjects }

\* what video.stats() may return: it raises, or a dict with or without views
Fallbacks == { Null, Dict(<<Pair("playCount", Num(9))>>), Dict(<<Pair("playCount", Num(0))>>) }

\* a payload has arrived and no extractor has looked at it yet
InitExtract ==
    /\ data = <<>>
    /\ heap = [o \in ObjIds |-> Free]
    /\ file = <<>>
    /\ pc = "sleep"
    /\ all_videos = <<>>
    /\ idx = 0
    /\ last_notified = 0
    /\ current_milestone = 0
    /\ tasks = [t \in TaskIds |-> NoTask]
    /\ hist = [o \in ObjIds |-> <<>>]
    /\ issued = <<>>
    /\ removed = NoRemove
    /\ did = NoCall
    /\ fetched = <<>>
    /\ video_data \in Payloads
    /\ video_stats \in Fallbacks
    /\ extracted = NoResult
    /\ video_url = Url("", <<>>)
    /\ response = Failed
    /\ video_id = NotCalled

\* asyncio.sleep returns in periodic_check and a sweep begins
Wake(kept) == SweepStart /\ Noting(kept, Call("wake", 0, "", NoStats), <<>>)

\* the sweep's await of get_video_stats returns, with None or a snapshot
FetchReturns(snaps, window, kept) ==
    \/ SweepFetchNone
          /\ Noting(kept, CallOfSweep("sweep", NoStats), Append(fetched, Fetched("none")))
    \/ \E stats \in snaps :
          /\ SweepFetchStats(stats, window)
          /\ Noting(kept, CallOfSweep("sweep", stats),
                    Append(fetched, Fetched(IF pc' = "send" THEN "pending" ELSE "quiet")))

\* the sweep's await of send_message returns or raises
SendReturns(kept) ==
    \/ SweepSendOk /\ Noting(kept, CallOfSweep("sent", NoStats), Outcome(fetched, "ok"))
    \/ SweepSendFail /\ Noting(kept, CallOfSweep("unsent", NoStats), Outcome(fetched, "fail"))

\* ------------------------------------------------------- the specification
\* The sweep, /set and /stats, for the users and videos named, with the
\* snapshots the platform may report, the length of the history, the
\* histories kept of the steps, and the number of handlers that may be
\* suspended at the same time.
NextOf(owners, vids, snaps, window, kept, most) ==
    \/ \E k \in owners, vid \in vids :
          SetStart(k, vid) /\ Handlers(most) /\ Noting({}, NoCall, fetched)
    \/ \E t \in TaskIds :
          SetFetchNone(t) /\ Noting(kept, CallOfSet(t, NoStats), fetched)
    \/ \E t \in TaskIds, stats \in snaps :
          SetFetchStats(t, stats) /\ Noting(kept, CallOfSet(t, stats), fetched)
    \/ \E k \in owners :
          StatsStart(k) /\ Handlers(most) /\ Noting({}, NoCall, fetched)
    \/ \E t \in TaskIds :
          StatsFetchNone(t) /\ Noting(kept, CallOfStats(t, NoStats), fetched)
    \/ \E t \in TaskIds, stats \in snaps :
          StatsFetchStats(t, stats) /\ Noting(kept, CallOfStats(t, stats), fetched)
    \/ Wake(kept)
    \/ FetchReturns(snaps, window, kept)
    \/ SendReturns(kept)

\* button_callback removes a video; the outcome is noted on request
RemoveOf(owners, vids, noted) ==
    \E k \in owners, vid \in vids :
        Remove(k, vid, noted) /\ Noting({}, NoCall, fetched)

\* Two users and two videos, every handler, one of them suspended at a time;
\* no history.
Next ==
    \/ NextOf(Owners, VideoIds, FewSnapshots, 0, {}, MaxTasks - 1)
    \/ RemoveOf(Owners, VideoIds, FALSE)

Spec == Init /\ [][Next]_vars

\* One user and two videos, every handler; the history notes the outcome of
\* each remove_video call.
NextStore ==
    \/ NextOf({1}, VideoIds, FewSnapshots, 0, {}, MaxTasks - 1)
    \/ RemoveOf({1}, VideoIds, TRUE)

SpecStore == Init /\ [][NextStore]_vars

\* The life of one record: one user adds one video, refreshes it and is
\* swept; the history holds the record's last MaxObs observations.
NextOne == NextOf({1}, {"a"}, Snapshots, MaxObs, {}, MaxTasks - 1)

SpecOne == Init /\ [][NextOne]_vars

\* One user and one video with every handler, as many of them suspended at
\* the same time as there are slots; the steps are noted.
NextSet ==
    \/ NextOf({1}, {"a"}, FewSnapshots, 0, {"did"}, MaxTasks)
    \/ RemoveOf({1}, {"a"}, FALSE)

SpecSet == Init /\ [][NextSet]_vars

\* One user and two videos with every handler, a single one suspended at a
\* time; the steps are noted.
NextUpdate ==
    \/ NextOf({1}, VideoIds, FewSnapshots, 0, {"did"}, 1)
    \/ RemoveOf({1}, VideoIds, FALSE)

SpecUpdate == Init /\ [][NextUpdate]_vars

\* One user and two videos with every handler, a single one suspended at a
\* time; the steps are noted and the log of each sweep is kept.
NextSweep ==
    \/ NextOf({1}, VideoIds, FewSnapshots, 0, {"did", "fetched"}, 1)
    \/ RemoveOf({1}, VideoIds, FALSE)

SpecSweep == Init /\ [][NextSweep]_vars

\* One user and two videos, /set and /stats with a single handler suspended
\* at a time, and the sweep; asyncio.sleep returns, and so does every fetch
\* and every send_message the sweep awaits.
NextLive == NextOf({1}, VideoIds, FewSnapshots, 0, {"did"}, 1)

\* Two users who track the same video, every handler with a single one
\* suspended at a time; the steps and the remove_video calls are noted.
NextPair ==
    \/ NextOf(Owners, {"a"}, FewSnapshots, 0, {"did"}, 1)
    \/ RemoveOf(Owners, {"a"}, TRUE)

SpecPair == Init /\ [][NextPair]_vars

\* One user and one video, /set, /stats and the sweep interleaved at their
\* awaits; the steps are noted and each record's latest sweep observation is
\* remembered.
NextRace == NextOf({1}, {"a"}, Snapshots, 1, {"did"}, MaxTasks - 1)

SpecRace == Init /\ [][NextRace]_vars

\* The process starts over a file of BootFiles; one user, two videos, every
\* handler with a single one suspended at a time.
NextBoot ==
    \/ NextOf({1}, VideoIds, FewSnapshots, 0, {}, 1)
    \/ RemoveOf({1}, VideoIds, FALSE)

SpecBoot == InitBoot /\ [][NextBoot]_vars

SpecLive ==
    /\ Init /\ [][NextLive]_vars
    /\ WF_vars(Wake({"did"}))
    /\ WF_vars(FetchReturns(FewSnapshots, 0, {"did"}))
    /\ WF_vars(SendReturns({"did"}))

\* The extractors alone, each applied once to the payload that arrived.
Tracker == <<data, heap, file, pc, all_videos, idx, last_notified,
             current_milestone, tasks, hist, issued, removed, did, fetched>>

\* get_video_stats goes through the payload (lines 206-265)
GetVideoStats ==
    /\ extracted.api = Pending
    /\ extracted' = [extracted EXCEPT !.api = get_video_stats(video_data, video_stats)]
    /\ UNCHANGED <<Tracker, video_data, video_stats, video_url, response, video_id>>

\* _extract_stats_from_json is called with the payload (lines 398-462)
ExtractStats ==
    /\ extracted.rec = Pending
    /\ extracted' = [extracted EXCEPT !.rec = extract_stats_from_json(video_data)]
    /\ UNCHANGED <<Tracker, video_data, video_stats, video_url, response, video_id>>

NextExtract == GetVideoStats \/ ExtractStats

SpecExtract == InitExtract /\ [][NextExtract]_vars

\* The sweep's fetch for video vid returns a snapshot, and its send_message
\* for video vid returns: the steps fairness is asked of, when fetches and
\* deliveries for a record succeed again and again.
FetchSucceeds(vid, snaps, window, kept) ==
    /\ pc = "fetch"
    /\ heap[all_videos[idx][2]].video_id = vid
    /\ \E stats \in snaps :
          /\ SweepFetchStats(stats, window)
          /\ Noting(kept, CallOfSweep("sweep", stats),
                    Append(fetched, Fetched(IF pc' = "send" THEN "pending" ELSE "quiet")))

SendSucceeds(vid, kept) ==
    /\ pc = "send"
    /\ heap[all_videos[idx][2]].video_id = vid
    /\ SweepSendOk
    /\ Noting(kept, CallOfSweep("sent", NoStats), Outcome(fetched, "ok"))

\* The scheduler with /set and /stats, no removes, while the platform
\* reports views above the first threshold: every await returns, and for
\* each video a fetch and a delivery that are tried again and again succeed.
NextNotify == NextOf({1}, VideoIds, HighSnapshots, 0, {"did"}, 1)

SpecNotify ==
    /\ Init
    /\ [][NextNotify]_vars
    /\ WF_vars(Wake({"did"}))
    /\ WF_vars(FetchReturns(HighSnapshots, 0, {"did"}))
    /\ WF_vars(SendReturns({"did"}))
    /\ \A vid \in VideoIds :
          /\ SF_vars(FetchSucceeds(vid, HighSnapshots, 0, {"did"}))
          /\ SF_vars(SendSucceeds(vid, {"did"}))

\* extract_video_id alone, applied once to the link that arrived
InitUrl ==
    /\ data = <<>>
    /\ heap = [o \in ObjIds |-> Free]
    /\ file = <<>>
    /\ pc = "sleep"
    /\ all_videos = <<>>
    /\ idx = 0
    /\ last_notified = 0
    /\ current_milestone = 0
    /\ tasks = [t \in TaskIds |-> NoTask]
    /\ hist = [o \in ObjIds |-> <<>>]
    /\ issued = <<>>
    /\ removed = NoRemove
    /\ did = NoCall
    /\ fetched = <<>>
    /\ video_data = Null
    /\ video_stats = Null
    /\ extracted = NoResult
    /\ video_url \in Urls
    /\ response \in Responses(video_url)
    /\ video_id = NotCalled

\* video_id = tiktok_monitor.extract_video_id(video_url) (line 500)
ExtractVideoId ==
    /\ video_id = NotCalled
    /\ video_id' = extract_video_id(video_url, response)
    /\ UNCHANGED <<Tracker, video_data, video_stats, extracted, video_url, response>>

NextUrl == ExtractVideoId

SpecUrl == InitUrl /\ [][NextUrl]_vars

\* ------------------------------------------------------------ properties
Floor50k(v) == (v \div 50000) * 50000

Last(h) == h[Len(h)]

\* C1: whenever a sweep's fetch succeeds with views v for a record whose
\* stored notified milestone is n, a notification is issued if and only if
\* floor(v/50000)*50000 exceeds both n and 0, and the milestone announced is
\* exactly floor(v/50000)*50000.
C1_FiresIffNewMilestone ==
    \A o \in ObjIds : \A i \in 1..Len(hist[o]) :
        LET e == hist[o][i]
        IN  /\ (e.fired # 0) <=> (Floor50k(e.views) > e.before /\ Floor50k(e.views) > 0)
            /\ e.fired # 0 => e.fired = Floor50k(e.views)

\* a record that was observed to fire and, later, not to fire although its
\* views were beyond the first milestone
C1_Witness ==
    \E o \in ObjIds : \E i, j \in 1..Len(hist[o]) :
        /\ i < j
        /\ hist[o][i].fired > 0
        /\ hist[o][j].fired = 0 /\ hist[o][j].views >= 50000

C3_NoRepeatAfterDelivery ==
    \A o \in ObjIds : \A i, j \in 1..Len(hist[o]) :
        i < j /\ hist[o][i].sent = "ok" =>
            hist[o][j].fired = 0 \/ hist[o][j].fired > hist[o][i].fired

\* M delivered, then views below M, then views at M again and no notification
C3_Witness ==
    \E o \in ObjIds :
        /\ Len(hist[o]) = 3
        /\ hist[o][1].sent = "ok"
        /\ hist[o][2].views < hist[o][1].fired
        /\ hist[o][3].views >= hist[o][1].fired
        /\ hist[o][3].fired = 0

\* C4: a sweep announces at most one milestone per item, and it is the
\* highest one the fetched views have crossed.
C4_SingleHighestMilestone ==
    \A i \in 1..Len(issued) :
        /\ issued[i].milestone = Floor50k(issued[i].views)
        /\ issued[i].milestone + 50000 > issued[i].views
        /\ \A j \in 1..Len(issued) : issued[j].obj = issued[i].obj => j = i

\* 30,000 seen by one sweep and 162,000 by the next: 150,000 is announced
C4_Witness ==
    \E o \in ObjIds :
        /\ Len(hist[o]) >= 2
        /\ hist[o][Len(hist[o]) - 1].views = 30000
        /\ Last(hist[o]).views = 162000
        /\ Last(hist[o]).before = 0
        /\ issued = <<[obj |-> o, views |-> 162000, milestone |-> 150000]>>

\* C5: after a sweep announced a milestone and recorded it, the next sweep
\* that observes the same views announces nothing; from notified 0 the
\* observations 75,000, 75,000, 210,000 announce 50,000, nothing, 200,000.
C5_IdempotentOnceApplied ==
    \A o \in ObjIds :
        /\ \A i \in 1..Len(hist[o]) :
              i < Len(hist[o]) /\ hist[o][i].sent = "ok"
                /\ hist[o][i + 1].views = hist[o][i].views
              => hist[o][i + 1].fired = 0
        /\ ( /\ Len(hist[o]) = 3
             /\ hist[o][1].before = 0
             /\ <<hist[o][1].views, hist[o][2].views, hist[o][3].views>>
                   = <<75000, 75000, 210000>>
             /\ hist[o][1].sent = "ok" )
           => <<hist[o][1].fired, hist[o][2].fired, hist[o][3].fired>>
                   = <<50000, 0, 200000>>

C5_Witness ==
    \E o \in ObjIds :
        /\ Len(hist[o]) = 3
        /\ hist[o][1].before = 0
        /\ <<hist[o][1].views, hist[o][2].views, hist[o][3].views>>
              = <<75000, 75000, 210000>>
        /\ hist[o][1].sent = "ok"
        /\ hist[o][3].sent = "ok"
        /\ heap[o].notified_at_views = 200000

\* C6: a record's stored notified milestone never decreases, and a milestone
\* is announced only if it is greater than the notified milestone stored at
\* that moment.
C6_Monotonic ==
    [][ /\ \A o \in ObjIds :
              ~IsFree(heap, o) /\ ~IsFree(heap', o)
              => heap'[o].notified_at_views >= heap[o].notified_at_views
        /\ pc = "fetch" /\ pc' = "send"
              => current_milestone' > heap[all_videos[idx][2]].notified_at_views
      ]_vars

\* a record whose milestone was raised twice, with lower views seen after
\* the first
C6_Witness ==
    \E o \in ObjIds :
        /\ Len(hist[o]) = 3
        /\ hist[o][1].sent = "ok"
        /\ hist[o][2].views < hist[o][1].fired
        /\ hist[o][3].sent = "ok"
        /\ heap[o].notified_at_views = hist[o][3].fired
        /\ hist[o][3].fired > hist[o][1].fired

\* C7, as claimed: every tracked record has notified_at_views <= last_views.
C7_NotifiedAtMostLastViews ==
    \A o \in ObjIds : ~IsFree(heap, o) => heap[o].notified_at_views <= heap[o].last_views

\* C7, amended: whenever a record's notified_at_views changes, the new value
\* is at most the views the sweep fetched for the record in that iteration;
\* it is not bounded by last_views, which any later fetch may lower.
C7_NotifiedAtMostFetchedViews ==
    [][ \A o \in ObjIds :
            ~IsFree(heap', o) /\ heap'[o].notified_at_views # heap[o].notified_at_views
            => /\ Len(hist[o]) > 0
               /\ heap'[o].notified_at_views <= Last(hist[o]).views
      ]_vars

\* a milestone was recorded and a later fetch reported fewer views than it
C7_Witness ==
    \E o \in ObjIds :
        /\ Len(hist[o]) >= 2
        /\ hist[o][Len(hist[o]) - 1].sent = "ok"
        /\ heap[o].notified_at_views = hist[o][Len(hist[o]) - 1].fired
        /\ heap[o].last_views = Last(hist[o]).views
        /\ heap[o].last_views < heap[o].notified_at_views

\* C8: every record's notified_at_views is a non-negative multiple of 50,000.
C8_NotifiedIsMultiple ==
    \A o \in ObjIds :
        /\ heap[o].notified_at_views >= 0
        /\ heap[o].notified_at_views % 50000 = 0

\* a record created at 0 and raised by a sweep that saw views off a multiple
C8_Witness ==
    \E o \in ObjIds :
        /\ heap[o].notified_at_views > 0
        /\ heap[o].last_views % 50000 # 0
        /\ Len(hist[o]) > 0 /\ hist[o][1].before = 0

\* C9, as claimed: remove_video returns True exactly when the record was
\* tracked and False otherwise, and the item is not tracked afterwards.
C9_RemoveReturns ==
    removed.result # "none" =>
        /\ removed.tracked => removed.result = "True"
        /\ ~removed.tracked => removed.result = "False"
        /\ ~Tracked(data, heap, removed.owner, removed.vid)

\* C10, as claimed: between operations the file holds the store as it is in
\* memory.
C10_FileIsStore == file = Serialize(data, heap)

\* C11: add_video for a pair that is tracked returns False and leaves the
\* store, the records' metrics and notified milestones and the file as they
\* were, and the store never holds two records of one owner with the same
\* video_id, whatever the handlers do and however they interleave.
C11_AddIdempotent ==
    /\ [](\A i \in 1..Len(data) : \A j1, j2 \in 1..Len(data[i].videos) :
            heap[data[i].videos[j1]].video_id = heap[data[i].videos[j2]].video_id
            => j1 = j2)
    /\ [][ did'.op = "set" /\ did'.stats # NoStats /\ did'.tracked
            => /\ ~add_video(data, heap, file, did'.owner, did'.vid).ok
               /\ UNCHANGED <<data, heap, file>>
        ]_vars

\* a /set handler has just added the record while a second /set handler for
\* the same owner and video, begun before, is still suspended at its fetch
C11_Witness ==
    /\ did.op = "set" /\ did.stats # NoStats /\ ~did.tracked
    /\ Tracked(data, heap, did.owner, did.vid)
    /\ \E t \in TaskIds :
          tasks[t].kind = "set" /\ tasks[t].owner = did.owner /\ tasks[t].vid = did.vid

\* the record objects the store holds
Stored(d) == Refs(d, <<>>, <<>>)

\* the record of user k with video_id vid in the store
RecordOf(d, h, k, vid) ==
    CHOOSE o \in Stored(d) :
        /\ \E j \in 1..Len(get_user_videos(d, k)) : get_user_videos(d, k)[j] = o
        /\ h[o].video_id = vid

\* C12: when /stats or the sweep hands a fetched snapshot to
\* update_video_stats, the record named, if it is in the store, gets the
\* snapshot in its four last_* fields and keeps its notified milestone; if it
\* is not in the store (it was removed while the fetch was awaited) it is not
\* put back; in both cases the lists of the store and every other record
\* stay as they were, and the file is left alone or holds the store.
C12_UpdateOverwritesOrSkips ==
    [][ did'.op \in {"stats", "sweep"} /\ did'.stats # NoStats
        => /\ data' = data
           /\ Tracked(data', heap', did'.owner, did'.vid) = did'.tracked
           /\ \A o \in Stored(data) :
                 IF did'.tracked /\ o = RecordOf(data, heap, did'.owner, did'.vid)
                 THEN heap'[o] = [heap[o] EXCEPT !.last_views = did'.stats.views,
                                                 !.last_likes = did'.stats.likes,
                                                 !.last_shares = did'.stats.shares,
                                                 !.last_favorites = did'.stats.favorites]
                 ELSE heap'[o] = heap[o]
           /\ file' = file \/ file' = Serialize(data', heap')
      ]_vars

\* the sweep fetched a snapshot for a record that was removed after the
\* sweep began, while the user's other record holds other metrics
C12_Witness ==
    /\ did.op = "sweep" /\ did.stats # NoStats /\ ~did.tracked
    /\ ~Tracked(data, heap, did.owner, did.vid)
    /\ \E o \in Stored(data) :
          /\ \E j \in 1..Len(get_user_videos(data, did.owner)) :
                get_user_videos(data, did.owner)[j] = o
          /\ heap[o].last_views # did.stats.views

\* the log holds the first n items of the sweep's snapshot, in order
LogIsPrefix(log, n) ==
    /\ Len(log) = n
    /\ \A i \in 1..n :
          /\ log[i].owner = all_videos[i][1]
          /\ log[i].vid = heap[all_videos[i][2]].video_id

\* C13: when the fetch of an item returns nothing (a fetch error or no
\* statistics extracted) or the delivery of its notification fails, the
\* sweep goes on with the next item of its snapshot, and it ends only when
\* every item of the snapshot has been fetched.
C13_SweepNeverAborted ==
    [][ /\ (did'.op = "sweep" /\ did'.stats = NoStats) \/ did'.op = "unsent"
            => IF idx < Len(all_videos)
               THEN pc' = "fetch" /\ idx' = idx + 1 /\ all_videos' = all_videos
               ELSE pc' = "sleep"
        /\ pc # "sleep" /\ pc' = "sleep" => LogIsPrefix(fetched', Len(all_videos))
      ]_vars

\* a sweep of two items is over: the delivery for the first failed, the
\* second was fetched all the same and its fetch returned nothing
C13_Witness ==
    /\ pc = "sleep"
    /\ Len(fetched) = 2
    /\ fetched[1].outcome = "fail"
    /\ fetched[2].outcome = "none"

\* C15: a sweep runs over the list of tracked items taken when it began:
\* the list does not change while the sweep runs, the items are fetched one
\* after the other, each once, and nothing else is fetched, so an item added
\* to the store meanwhile is not fetched by this sweep.
C15_OneFetchPerSnapshotItem ==
    /\ [](pc # "sleep" => LogIsPrefix(fetched, IF pc = "send" THEN idx ELSE idx - 1))
    /\ [][ /\ (pc = "sleep" /\ pc' # "sleep")
                 => (all_videos' = get_all_tracked_videos(data) /\ idx' = 1)
           /\ (pc # "sleep" /\ pc' # "sleep")
                 => /\ all_videos' = all_videos
                    /\ idx' = IF pc = "fetch" /\ pc' = "send" THEN idx
                               ELSE IF did'.op \in {"sweep", "sent", "unsent"} THEN idx + 1
                               ELSE idx
       ]_vars

\* a sweep has just ended after one fetch while the store holds two records:
\* the second was added after the sweep began and was not fetched
C15_Witness ==
    /\ pc = "sleep"
    /\ did.op \in {"sweep", "sent", "unsent"}
    /\ Len(fetched) = 1
    /\ Len(get_all_tracked_videos(data)) = 2

\* C14: periodic_check is asleep or in a sweep (at the fetch or at the send
\* of an item) and nowhere else; every sweep that began comes to its end,
\* and sweeps begin again and again, whatever failed in the sweeps before.
C14_SchedulerAlternates ==
    /\ [](pc \in {"sleep", "fetch", "send"})
    /\ (pc # "sleep") ~> (pc = "sleep")
    /\ []<>(did.op = "wake")

\* a sweep has just ended with a failed delivery and periodic_check sleeps
C14_Witness ==
    /\ pc = "sleep"
    /\ did.op = "unsent"

\* C16, as claimed: a tracker does not run on an empty store over a file
\* that exists and could not be parsed, so such a file is never replaced by
\* a store without the records it held.
C16_UnreadableFileKept ==
    [][file = Unreadable => file' = Unreadable]_vars

\* the user a step was taken for: the user of the handler or of the sweep's
\* item, 0 when the step has none
Whose(call, rem) == IF rem.result # "none" THEN rem.owner ELSE call.owner

\* C17: a step taken for one user (an add, a remove, a metrics update, a
\* milestone notification) leaves the list and the records of every other
\* user as they were, also when both track the same video; and the sweep
\* announces a milestone for a user's record exactly when the milestone of
\* the fetched views is above the notified milestone of that very record.
C17_OwnersIndependent ==
    [][ /\ \A k \in Owners \ {Whose(did', removed')} :
              /\ get_user_videos(data', k) = get_user_videos(data, k)
              /\ \A j \in 1..Len(get_user_videos(data, k)) :
                    heap'[get_user_videos(data, k)[j]] = heap[get_user_videos(data, k)[j]]
        /\ (pc = "fetch" /\ did'.op = "sweep" /\ did'.stats # NoStats)
              => ( pc' = "send" <=>
                     /\ Floor50k(did'.stats.views) > heap[all_videos[idx][2]].notified_at_views
                     /\ Floor50k(did'.stats.views) > 0 )
      ]_vars

\* both users track the video; the first has been notified of 50,000, and
\* the sweep now announces 50,000 to the second, whose record stands at 0
C17_Witness ==
    /\ Tracked(data, heap, 1, "a") /\ Tracked(data, heap, 2, "a")
    /\ heap[RecordOf(data, heap, 1, "a")].notified_at_views = 50000
    /\ heap[RecordOf(data, heap, 2, "a")].notified_at_views = 0
    /\ pc = "send" /\ current_milestone = 50000
    /\ all_videos[idx] = <<2, RecordOf(data, heap, 2, "a")>>

\* the four counters of a record, as a snapshot
Metrics(r) == Snap(r.last_views, r.last_likes, r.last_shares, r.last_favorites)

\* C19: with /stats and the sweep interleaved on one record, the record's
\* four last_* fields are at all times those of one fetched snapshot; a step
\* that writes the metrics writes the snapshot it fetched and leaves the
\* notified milestone alone, and the step that writes the notified milestone
\* writes the milestone of the views the sweep fetched and leaves the
\* metrics alone, so neither write undoes the other.
C19_NoLostUpdate ==
    /\ [](\A o \in ObjIds : ~IsFree(heap, o) => Metrics(heap[o]) \in Snapshots)
    /\ [][ \A o \in ObjIds :
              ~IsFree(heap, o) /\ ~IsFree(heap', o) /\ heap'[o] # heap[o]
              => \/ /\ did'.op \in {"stats", "sweep"}
                    /\ Metrics(heap'[o]) = did'.stats
                    /\ heap'[o].notified_at_views = heap[o].notified_at_views
                 \/ /\ did'.op = "sent"
                    /\ Metrics(heap'[o]) = Metrics(heap[o])
                    /\ heap'[o].notified_at_views = Floor50k(Last(hist[o]).views)
                    /\ heap'[o].notified_at_views > heap[o].notified_at_views
       ]_vars

\* the sweep has just written the milestone of the views it fetched, and the
\* record holds the other metrics /stats wrote between that fetch and now
C19_Witness ==
    \E o \in ObjIds :
        /\ did.op = "sent"
        /\ Len(hist[o]) = 1
        /\ heap[o].notified_at_views = Floor50k(hist[o][1].views)
        /\ heap[o].last_views # hist[o][1].views

\* a dict of counters came back and every counter in it is 0
Zeros(r) ==
    /\ r.kind = "stats"
    /\ \A i \in 1..Len(Values(r)) : Values(r)[i] = Num(0)

\* C18: validity gate: for every payload shape and every locator path,
\* neither get_video_stats nor _extract_stats_from_json returns a metric
\* record whose counters are all zero; an all-zero result comes back as None.
C18_NeverAllZero ==
    /\ ~Zeros(extracted.api)
    /\ ~Zeros(extracted.rec)

\* the value at a path of keys, Absent when a key on the way is missing
RECURSIVE At(_, _)
At(json, path) ==
    IF path = <<>> THEN json
    ELSE IF Has(json, Head(path)) THEN At(Get(json, Head(path)), Tail(path))
    ELSE Absent

CounterKeys ==
    {"playCount", "viewCount", "diggCount", "likeCount", "shareCount", "collectCount"}

Locators == << <<"data", "stats">>, <<"stats">>, <<"itemInfo", "itemStruct", "stats">> >>

\* the locators that yield a sub-object with at least one recognized counter
Yielding(json) ==
    { i \in 1..Len(Locators) : \E k \in CounterKeys : Has(At(json, Locators[i]), k) }

\* the counters of the first of them
Winner(json) ==
    normalize(At(json, Locators[CHOOSE i \in Yielding(json) :
                                    \A j \in Yielding(json) : i <= j]))

\* C20: the locators data.stats, stats, itemInfo.itemStruct.stats are tried
\* in order and the first that yields a sub-object with a recognized counter
\* key wins, whatever other keys are present: when its counters pass the
\* validity gate (and video.stats() has nothing to add), both extractors
\* return them; {"data":{"stats":{"playCount":1000,"diggCount":5}}} gives
\* {views 1000, likes 5, shares 0, favorites 0}.
C20_FirstLocatorWins ==
    (/\ Yielding(video_data) # {}
     /\ AnyPositive(Values(Winner(video_data))) = "yes"
     /\ video_stats = Null)
    => /\ extracted.api \in {Pending, Winner(video_data)}
       /\ extracted.rec \in {Pending, Winner(video_data)}

\* the payload is {"stats": {...}} with a dict that is not empty: both
\* extractors resolve that sub-object
Resolved ==
    /\ Len(video_data.items) = 1
    /\ Get(video_data, "stats").kind = "dict"
    /\ Truthy(Get(video_data, "stats"))

\* among the keys, in order, the positions that hold a number other than 0
NonZeroAt(stats, keys) ==
    { i \in 1..Len(keys) : /\ Get(stats, keys[i]).kind = "num"
                           /\ Get(stats, keys[i]).num # 0 }

FirstNonZero(stats, keys) ==
    IF NonZeroAt(stats, keys) = {} THEN Num(0)
    ELSE Get(stats, keys[CHOOSE i \in NonZeroAt(stats, keys) :
                            \A j \in NonZeroAt(stats, keys) : i <= j])

\* among the keys, in order, the positions that are present and not null
PresentAt(stats, keys) ==
    { i \in 1..Len(keys) : Has(stats, keys[i]) /\ Get(stats, keys[i]).kind # "null" }

FirstPresent(stats, keys) ==
    IF PresentAt(stats, keys) = {} THEN Num(0)
    ELSE Get(stats, keys[CHOOSE i \in PresentAt(stats, keys) :
                            \A j \in PresentAt(stats, keys) : i <= j])

\* C21 (as the code has it): for a resolved stats sub-object whose counters
\* are numbers or null, each counter an extractor returns is the value of the
\* first synonymous key (views: playCount then viewCount; likes: diggCount
\* then likeCount) that holds a number other than 0, and 0 when there is
\* none: a first key that is present with 0 is passed over like null.
C21_FirstNonZeroSynonym ==
    \A r \in {extracted.api, extracted.rec} :
        (Resolved /\ r.kind = "stats") =>
            LET stats == Get(video_data, "stats")
            IN  r = Counters("stats",
                             FirstNonZero(stats, <<"playCount", "viewCount">>),
                             FirstNonZero(stats, <<"diggCount", "likeCount">>),
                             FirstNonZero(stats, <<"shareCount">>),
                             FirstNonZero(stats, <<"collectCount">>))

\* playCount is 0 and viewCount is 7: both extractors return 7 views
C21_Witness ==
    /\ Resolved
    /\ Get(video_data, "stats") =
         Dict(<<Pair("playCount", Num(0)), Pair("viewCount", Num(7))>>)
    /\ extracted.api.views = Num(7)
    /\ extracted.rec.views = Num(7)

\* C21 (as stated): each counter is the value of the first synonymous key
\* that is present and non-null, also when that value is 0; a counter whose
\* keys are all absent is 0.
C21_FirstPresentSynonym ==
    \A r \in {extracted.api, extracted.rec} :
        (Resolved /\ r.kind = "stats") =>
            LET stats == Get(video_data, "stats")
            IN  r = Counters("stats",
                             FirstPresent(stats, <<"playCount", "viewCount">>),
                             FirstPresent(stats, <<"diggCount", "likeCount">>),
                             FirstPresent(stats, <<"shareCount">>),
                             FirstPresent(stats, <<"collectCount">>))

\* The payload as a search of bounded depth and breadth can see it: no
\* object or list more than `room` keys down, and no element of a list after
\* the 10th.
RECURSIVE Cut(_, _)
Cut(json, room) ==
    IF json.kind \notin {"dict", "list"} THEN json
    ELSE Node(json.kind, 0,
              [i \in 1..(IF json.kind = "list" /\ Len(json.items) > 10
                         THEN 10 ELSE Len(json.items)) |->
                  Pair(json.items[i].key,
                       IF json.items[i].val.kind \notin {"dict", "list"}
                       THEN json.items[i].val
                       ELSE IF room = 0 THEN Null
                       ELSE Cut(json.items[i].val, room - 1))])

\* C22: _extract_stats_from_json never descends more than 10 nesting levels
\* and never looks past the 10th element of a list: what it returns for a
\* payload is what it returns for the payload cut at these limits.  (Ten
\* descents reach the objects 10 keys down; the call there reads the counters
\* of its 'stats' object, 11 keys down, without a further descent.)
C22_SearchBounded ==
    extracted.rec # Pending =>
        extracted.rec = extract_stats_from_json(Cut(video_data, 11))

\* C23: extract_video_id.  For a short link whose resolution fails the result
\* is the link's own path segment (its leading letters and digits), whatever
\* else the URL would match; otherwise the patterns are tried on the final
\* URL in the order user-handle path, any path, short code, and the first
\* that matches gives the result; the result is None exactly when no pattern
\* matches.
C23_ExtractVideoId ==
    video_id # NotCalled =>
        LET failed == video_url.host \in ShortHosts /\ ~response.ok
            final == IF video_url.host \in ShortHosts /\ response.ok
                     THEN response.url ELSE video_url
            own == failed /\ short_pattern(video_url) # NoMatch
        IN  /\ own => video_id = Group(Leading(video_url.path[1], AlphaNum))
            /\ (~own /\ user_pattern(final) # NoMatch) => video_id = user_pattern(final)
            /\ (~own /\ user_pattern(final) = NoMatch /\ any_pattern(final) # NoMatch)
                   => video_id = any_pattern(final)
            /\ (~own /\ user_pattern(final) = NoMatch /\ any_pattern(final) = NoMatch)
                   => video_id = short_pattern(final)
            /\ video_id = NoMatch <=>
                   /\ user_pattern(final) = NoMatch
                   /\ any_pattern(final) = NoMatch
                   /\ short_pattern(final) = NoMatch

\* vm.tiktok.com/x7/video/7 did not resolve: the result is x7, not 7
C23_Witness ==
    /\ video_url = Url("vm.tiktok.com", <<<<"x", "7">>, <<"video">>, <<"7">>>>)
    /\ ~response.ok
    /\ any_pattern(video_url) = Group(<<"7">>)
    /\ video_id = Group(<<"x", "7">>)

\* C24: a milestone notification is only sent for a record that is tracked
\* at that moment: when the sweep goes from its fetch to send_message, the
\* item it notifies is in the store of its owner (so an item removed during
\* the fetch is not notified).
C24_SentOnlyIfTracked ==
    [][(pc = "fetch" /\ pc' = "send") =>
          Tracked(data', heap', all_videos[idx][1], heap[all_videos[idx][2]].video_id)]_vars

\* C25: when the sweep has delivered milestone M for (owner, item), the
\* record stored for (owner, item) at that moment, if there is one, has
\* notified_at_views >= M, whatever /remove and /set did to the item during
\* the sweep's awaits.
C25_StoredRecordMarked ==
    [][(pc = "send" /\ did'.op = "sent" /\ Tracked(data', heap', did'.owner, did'.vid)) =>
          heap'[RecordOf(data', heap', did'.owner, did'.vid)].notified_at_views
              >= current_milestone]_vars

\* the record objects in the store of user k
Mine(d, k) == {get_user_videos(d, k)[j] : j \in 1..Len(get_user_videos(d, k))}

\* C26: a refresh (/stats) changes only the last_* fields of records of its
\* owner and no notified_at_views; and a sweep whose fetch returns views in
\* a milestone above the record's notified milestone sends that milestone,
\* whatever last_views a refresh has stored in the meantime.
C26_RefreshKeepsBaseline ==
    [][/\ did'.op = "stats" =>
             /\ data' = data
             /\ \A o \in Stored(data) :
                   /\ heap'[o].video_id = heap[o].video_id
                   /\ heap'[o].notified_at_views = heap[o].notified_at_views
                   /\ o \notin Mine(data, did'.owner) => heap'[o] = heap[o]
       /\ (/\ pc = "fetch"
           /\ did'.op = "sweep"
           /\ did'.stats # NoStats
           /\ Floor50k(did'.stats.views) > heap[all_videos[idx][2]].notified_at_views)
             => /\ pc' = "send"
                /\ current_milestone' = Floor50k(did'.stats.views)
      ]_vars

\* a refresh has stored 75,000 views in a record whose notified milestone is
\* 0, while the sweep awaits its fetch for that record
C26_Witness ==
    /\ did.op = "stats"
    /\ did.stats.views = 75000
    /\ pc = "fetch"
    /\ all_videos[idx][1] = did.owner
    /\ all_videos[idx][2] \in Mine(data, did.owner)
    /\ heap[all_videos[idx][2]].last_views = 75000
    /\ heap[all_videos[idx][2]].notified_at_views = 0

\* C27: a record that is tracked with a notified milestone below 50,000,
\* while the platform keeps reporting views of 50,000 or more, is eventually
\* notified: a notification for it is delivered and its notified_at_views is
\* 50,000 or more.
C27_EventuallyNotified ==
    \A vid \in VideoIds :
        (/\ Tracked(data, heap, 1, vid)
         /\ heap[RecordOf(data, heap, 1, vid)].notified_at_views < Threshold)
        ~> (/\ did.op = "sent"
            /\ did.vid = vid
            /\ Tracked(data, heap, 1, vid)
            /\ heap[RecordOf(data, heap, 1, vid)].notified_at_views >= Threshold)

\* the notification for "a" has just been delivered and its milestone is in
\* the stored record
C27_Witness ==
    /\ did.op = "sent"
    /\ did.vid = "a"
    /\ Tracked(data, heap, 1, "a")
    /\ heap[RecordOf(data, heap, 1, "a")].notified_at_views >= Threshold

====
